---- MODULE Spec2Model ----
(***************************************************************************)
(* Model of the convert-and-archive handler of src/lambda_function.py:     *)
(* an S3 notification handler that converts an uploaded CSV object into a  *)
(* Parquet object under the archive folder and deletes the original.       *)
(*                                                                         *)
(* Keys are strings; the object store is a function from keys to objects.  *)
(* An invocation of lambda_handler is a process whose position (pc) moves  *)
(* from one storage call to the next, so that failures of single calls and *)
(* interleavings of concurrent invocations are visible.                    *)
(*                                                                         *)
(* The environment is an uploading client and the runtime that delivers    *)
(* the bucket's notifications at least once.  The lifecycle rule that      *)
(* src/main.py puts on the archive folder expires objects after a day; the *)
(* model covers the deliveries of a notification, which happen well within *)
(* that day, so no object is expired in it.  A storage call that fails     *)
(* leaves the bucket as it was.                                            *)
(***************************************************************************)
EXTENDS Integers, Sequences, FiniteSets, TLC

VARIABLES
    store,      \* the bucket: key -> object (Absent when there is none)
    notified,   \* keys for which an ObjectCreated notification was emitted
    origin,     \* history: key -> source key of the invocation that wrote it
    uploads,    \* number of uploads so far (bounded by MaxUploads)
    pc,         \* invocation -> position inside lambda_handler
    src,        \* invocation -> source_path
    dst,        \* invocation -> destination_path
    head,       \* invocation -> response of s3.head_object
    seen,       \* history: invocation -> destination present when probed
    body,       \* invocation -> content returned by s3.get_object
    buffer,     \* invocation -> the in-memory Parquet buffer
    calls,      \* invocation -> storage calls issued so far, in order
    outcome,    \* invocation -> how the invocation ended
    error       \* invocation -> the exception that left lambda_handler

vars == <<store, notified, origin, uploads, pc, src, dst, head, seen, body,
          buffer, calls, outcome, error>>

locals == <<pc, src, dst, head, seen, body, buffer, calls, outcome, error>>

-----------------------------------------------------------------------------
(* Bounds *)

MaxUploads == 2

MaxSegs == 3

-----------------------------------------------------------------------------
(* Configuration constants of the handler *)

incoming_folder == "incoming/"

archive_folder == "archive/"

csv_ext == ".csv"

parquet_ext == ".parquet"

-----------------------------------------------------------------------------
(* Python string primitives, computed character by character *)

startswith(s, p) == Len(s) >= Len(p) /\ SubSeq(s, 1, Len(p)) = p

endswith(s, p) == Len(s) >= Len(p) /\ SubSeq(s, Len(s) - Len(p) + 1, Len(s)) = p

\* str.replace(old, new) for a non-empty old: scans s from the left, from
\* position n on, and replaces every non-overlapping occurrence of old
RECURSIVE replace_from(_, _, _, _)
replace_from(s, old, new, n) ==
    IF n + Len(old) - 1 > Len(s) THEN SubSeq(s, n, Len(s))
    ELSE IF SubSeq(s, n, n + Len(old) - 1) = old
         THEN new \o replace_from(s, old, new, n + Len(old))
         ELSE SubSeq(s, n, n) \o replace_from(s, old, new, n + 1)

\* str.replace(old, new, 1): only the first occurrence is replaced
replace_first(s, old, new) ==
    LET at == {n \in 1..(Len(s) - Len(old) + 1) : SubSeq(s, n, n + Len(old) - 1) = old}
    IN  IF at = {} THEN s
        ELSE LET n == CHOOSE m \in at : \A o \in at : m <= o
             IN  SubSeq(s, 1, n - 1) \o new \o SubSeq(s, n + Len(old), Len(s))

replace(s, old, new) == replace_from(s, old, new, 1)

\* a filter that forgets the extension
Eligible_prefix_only(k) == startswith(k, incoming_folder)

\* the eligibility filter of lambda_handler
Eligible(k) == startswith(k, incoming_folder) /\ endswith(k, csv_ext)

\* destination_path as lambda_handler derives it from source_path
destination_path(k) ==
    replace(replace(k, incoming_folder, archive_folder), csv_ext, parquet_ext)

-----------------------------------------------------------------------------
(* Keys and objects *)

\* the keys that are uploaded in the model: two eligible keys that hold the
\* prefix more than once or the archive prefix, and two keys the filter rejects
Keys == { "incoming/incoming/x.csv",
          "incoming/archive/x.csv",
          "other/data.csv",
          "incoming/data.txt" }

EligibleKeys == {k \in Keys : Eligible(k)}

AllKeys == Keys \cup {destination_path(k) : k \in EligibleKeys}

NoKey == ""

Absent == [kind |-> "absent"]

\* a CSV object: its lines, each line a sequence of cells; the first line is
\* the header
Csv(lines) == [kind |-> "csv", lines |-> lines]

\* the bodies that are uploaded in the model: a table of two rows, and an
\* empty body, which pandas.read_csv rejects
CsvBodies ==
    { Csv(<< <<"id", "name">>, <<"2", "b">>, <<"1", "a">> >>),
      Csv(<< >>) }

\* pandas.read_csv raises EmptyDataError on a body without a header line
Decodable(b) == Len(b.lines) > 0

\* dtype inference of pandas.read_csv on one cell
ParseCell(c) ==
    CASE c = "1" -> 1
      [] c = "2" -> 2
      [] OTHER -> c

\* pandas.read_csv: the header gives the columns, the other lines the rows
read_csv(b) ==
    [columns |-> Head(b.lines),
     rows    |-> [r \in 1..(Len(b.lines) - 1) |->
                    [c \in 1..Len(Head(b.lines)) |-> ParseCell(b.lines[r + 1][c])]]]

\* DataFrame.to_parquet(index=True): the row index is stored as a column
to_parquet_with_index(df) ==
    [kind     |-> "parquet",
     schema   |-> <<"__index_level_0__">> \o df.columns,
     num_rows |-> Len(df.rows),
     chunks   |-> <<[r \in 1..Len(df.rows) |-> r - 1]>> \o
                  [c \in 1..Len(df.columns) |->
                     [r \in 1..Len(df.rows) |-> df.rows[r][c]]]]

\* DataFrame.to_parquet(index=False): one column chunk per DataFrame column,
\* no index column
to_parquet(df) ==
    [kind     |-> "parquet",
     schema   |-> df.columns,
     num_rows |-> Len(df.rows),
     chunks   |-> [c \in 1..Len(df.columns) |->
                     [r \in 1..Len(df.rows) |-> df.rows[r][c]]]]

Present(k) == store[k] # Absent

-----------------------------------------------------------------------------
(* Invocations of lambda_handler *)

Invocations == {1, 2}

InFlight(i) == pc[i] \notin {"idle", "done"}

\* a probe that takes only a 404 for "no object"
s3_file_exist_unless_404(resp) == resp # "404"

\* s3_file_exist: True when head_object answered, False on any exception
s3_file_exist(resp) == resp = "200"

\* what head_object can answer for a key: the object's metadata, a 404 when
\* there is no object, or a transient service error in either case
HeadResponses(k) == IF Present(k) THEN {"200", "error"} ELSE {"404", "error"}

Raise(i, e) ==
    /\ pc' = [pc EXCEPT ![i] = "done"]
    /\ outcome' = [outcome EXCEPT ![i] = "raised"]
    /\ error' = [error EXCEPT ![i] = e]

Init ==
    /\ store = [k \in AllKeys |-> Absent]
    /\ notified = {}
    /\ origin = [k \in AllKeys |-> NoKey]
    /\ uploads = 0
    /\ pc = [i \in Invocations |-> "idle"]
    /\ src = [i \in Invocations |-> NoKey]
    /\ dst = [i \in Invocations |-> NoKey]
    /\ head = [i \in Invocations |-> "none"]
    /\ seen = [i \in Invocations |-> FALSE]
    /\ body = [i \in Invocations |-> Absent]
    /\ buffer = [i \in Invocations |-> Absent]
    /\ calls = [i \in Invocations |-> << >>]
    /\ outcome = [i \in Invocations |-> "none"]
    /\ error = [i \in Invocations |-> "none"]

\* an external client stores a CSV object; the bucket emits a notification
Upload(k, c) ==
    /\ uploads < MaxUploads
    /\ \A i \in Invocations : InFlight(i) => src[i] # k
    /\ store' = [store EXCEPT ![k] = c]
    /\ notified' = notified \cup {k}
    /\ uploads' = uploads + 1
    /\ UNCHANGED <<origin, locals>>

\* lambda_handler is invoked with the notification of key k: it reads the
\* key, applies the eligibility filter and derives the destination path
Deliver(i, k) ==
    /\ ~InFlight(i)
    /\ k \in notified
    /\ src' = [src EXCEPT ![i] = k]
    /\ head' = [head EXCEPT ![i] = "none"]
    /\ seen' = [seen EXCEPT ![i] = FALSE]
    /\ body' = [body EXCEPT ![i] = Absent]
    /\ buffer' = [buffer EXCEPT ![i] = Absent]
    /\ calls' = [calls EXCEPT ![i] = << >>]
    /\ error' = [error EXCEPT ![i] = "none"]
    /\ IF Eligible(k)
       THEN /\ dst' = [dst EXCEPT ![i] = destination_path(k)]
            /\ pc' = [pc EXCEPT ![i] = "probe"]
            /\ outcome' = [outcome EXCEPT ![i] = "none"]
       ELSE /\ dst' = [dst EXCEPT ![i] = NoKey]
            /\ pc' = [pc EXCEPT ![i] = "done"]
            /\ outcome' = [outcome EXCEPT ![i] = "ignored"]
    /\ UNCHANGED <<store, notified, origin, uploads>>

\* if s3_file_exist(destination_path)
Probe(i, resp) ==
    /\ pc[i] = "probe"
    /\ resp \in HeadResponses(dst[i])
    /\ calls' = [calls EXCEPT ![i] = Append(@, "head_object")]
    /\ head' = [head EXCEPT ![i] = resp]
    /\ seen' = [seen EXCEPT ![i] = Present(dst[i])]
    /\ pc' = [pc EXCEPT ![i] = IF s3_file_exist(resp) THEN "purge" ELSE "fetch"]
    /\ UNCHANGED <<store, notified, origin, uploads, src, dst, body, buffer,
                   outcome, error>>

\* an already-processed branch that deletes the destination key
Purge_destination(i, fault) ==
    /\ pc[i] = "purge"
    /\ calls' = [calls EXCEPT ![i] = Append(@, "delete_object")]
    /\ IF fault
       THEN /\ Raise(i, "ServiceError")
            /\ UNCHANGED store
       ELSE /\ store' = [store EXCEPT ![dst[i]] = Absent]
            /\ pc' = [pc EXCEPT ![i] = "done"]
            /\ outcome' = [outcome EXCEPT ![i] = "already"]
            /\ UNCHANGED error
    /\ UNCHANGED <<notified, origin, uploads, src, dst, head, seen, body, buffer>>

\* the already-processed branch: delete the source and return
Purge(i, fault) ==
    /\ pc[i] = "purge"
    /\ calls' = [calls EXCEPT ![i] = Append(@, "delete_object")]
    /\ IF fault
       THEN /\ Raise(i, "ServiceError")
            /\ UNCHANGED store
       ELSE /\ store' = [store EXCEPT ![src[i]] = Absent]
            /\ pc' = [pc EXCEPT ![i] = "done"]
            /\ outcome' = [outcome EXCEPT ![i] = "already"]
            /\ UNCHANGED error
    /\ UNCHANGED <<notified, origin, uploads, src, dst, head, seen, body, buffer>>

\* a fetch that takes a body it cannot decode for an empty table
Fetch_lenient(i, fault) ==
    /\ pc[i] = "fetch"
    /\ calls' = [calls EXCEPT ![i] = Append(@, "get_object")]
    /\ IF fault
       THEN /\ Raise(i, "ServiceError")
            /\ UNCHANGED <<body, buffer>>
       ELSE IF ~Present(src[i])
       THEN /\ Raise(i, "NoSuchKey")
            /\ UNCHANGED <<body, buffer>>
       ELSE /\ body' = [body EXCEPT ![i] = store[src[i]]]
            /\ buffer' = [buffer EXCEPT ![i] =
                    IF Decodable(store[src[i]])
                    THEN to_parquet(read_csv(store[src[i]]))
                    ELSE to_parquet([columns |-> << >>, rows |-> << >>])]
            /\ pc' = [pc EXCEPT ![i] = "write"]
            /\ UNCHANGED <<outcome, error>>
    /\ UNCHANGED <<store, notified, origin, uploads, src, dst, head, seen>>

\* s3.get_object, pd.read_csv and df.to_parquet into the buffer
Fetch(i, fault) ==
    /\ pc[i] = "fetch"
    /\ calls' = [calls EXCEPT ![i] = Append(@, "get_object")]
    /\ IF fault
       THEN /\ Raise(i, "ServiceError")
            /\ UNCHANGED <<body, buffer>>
       ELSE IF ~Present(src[i])
       THEN /\ Raise(i, "NoSuchKey")
            /\ UNCHANGED <<body, buffer>>
       ELSE IF ~Decodable(store[src[i]])
       THEN /\ Raise(i, "EmptyDataError")
            /\ body' = [body EXCEPT ![i] = store[src[i]]]
            /\ UNCHANGED buffer
       ELSE /\ body' = [body EXCEPT ![i] = store[src[i]]]
            /\ buffer' = [buffer EXCEPT ![i] = to_parquet(read_csv(store[src[i]]))]
            /\ pc' = [pc EXCEPT ![i] = "write"]
            /\ UNCHANGED <<outcome, error>>
    /\ UNCHANGED <<store, notified, origin, uploads, src, dst, head, seen>>

\* a write whose failure is swallowed: the handler goes on to the delete
Write_swallow(i, fault) ==
    /\ pc[i] = "write"
    /\ calls' = [calls EXCEPT ![i] = Append(@, "upload_fileobj")]
    /\ IF fault
       THEN UNCHANGED <<store, origin>>
       ELSE /\ store' = [store EXCEPT ![dst[i]] = buffer[i]]
            /\ origin' = [origin EXCEPT ![dst[i]] = src[i]]
    /\ pc' = [pc EXCEPT ![i] = "delete"]
    /\ UNCHANGED <<notified, uploads, src, dst, head, seen, body, buffer, outcome, error>>

\* s3.upload_fileobj(buffer, Key=destination_path)
Write(i, fault) ==
    /\ pc[i] = "write"
    /\ calls' = [calls EXCEPT ![i] = Append(@, "upload_fileobj")]
    /\ IF fault
       THEN /\ Raise(i, "ServiceError")
            /\ UNCHANGED <<store, origin>>
       ELSE /\ store' = [store EXCEPT ![dst[i]] = buffer[i]]
            /\ origin' = [origin EXCEPT ![dst[i]] = src[i]]
            /\ pc' = [pc EXCEPT ![i] = "delete"]
            /\ UNCHANGED <<outcome, error>>
    /\ UNCHANGED <<notified, uploads, src, dst, head, seen, body, buffer>>

\* a delete that is given the destination key
Delete_destination(i, fault) ==
    /\ pc[i] = "delete"
    /\ calls' = [calls EXCEPT ![i] = Append(@, "delete_object")]
    /\ IF fault
       THEN /\ Raise(i, "ServiceError")
            /\ UNCHANGED store
       ELSE /\ store' = [store EXCEPT ![dst[i]] = Absent]
            /\ pc' = [pc EXCEPT ![i] = "done"]
            /\ outcome' = [outcome EXCEPT ![i] = "converted"]
            /\ UNCHANGED error
    /\ UNCHANGED <<notified, origin, uploads, src, dst, head, seen, body, buffer>>

\* a delete that returns without removing the source
Delete_skipped(i, fault) ==
    /\ pc[i] = "delete"
    /\ calls' = [calls EXCEPT ![i] = Append(@, "delete_object")]
    /\ IF fault
       THEN Raise(i, "ServiceError")
       ELSE /\ pc' = [pc EXCEPT ![i] = "done"]
            /\ outcome' = [outcome EXCEPT ![i] = "converted"]
            /\ UNCHANGED error
    /\ UNCHANGED <<store, notified, origin, uploads, src, dst, head, seen, body, buffer>>

\* s3.delete_object(Key=source_path) and the confirmation line
Delete(i, fault) ==
    /\ pc[i] = "delete"
    /\ calls' = [calls EXCEPT ![i] = Append(@, "delete_object")]
    /\ IF fault
       THEN /\ Raise(i, "ServiceError")
            /\ UNCHANGED store
       ELSE /\ store' = [store EXCEPT ![src[i]] = Absent]
            /\ pc' = [pc EXCEPT ![i] = "done"]
            /\ outcome' = [outcome EXCEPT ![i] = "converted"]
            /\ UNCHANGED error
    /\ UNCHANGED <<notified, origin, uploads, src, dst, head, seen, body, buffer>>

\* one step of a running invocation
Step(i) ==
    \/ \E resp \in {"200", "404", "error"} : Probe(i, resp)
    \/ \E fault \in BOOLEAN : Purge(i, fault)
    \/ \E fault \in BOOLEAN : Fetch(i, fault)
    \/ \E fault \in BOOLEAN : Write(i, fault)
    \/ \E fault \in BOOLEAN : Delete(i, fault)

\* the runtime delivers notifications one at a time, to one execution
\* environment
DeliverSeq(k) == Deliver(1, k)

Next ==
    \/ \E k \in Keys, c \in CsvBodies : Upload(k, c)
    \/ \E k \in Keys : DeliverSeq(k)
    \/ Step(1)

Spec == Init /\ [][Next]_vars

\* the runtime delivers a notification while another invocation is running:
\* it takes the first execution environment that is free
DeliverConc(i, k) == (\A j \in Invocations : j < i => InFlight(j)) /\ Deliver(i, k)

NextConc ==
    \/ \E k \in Keys, c \in CsvBodies : Upload(k, c)
    \/ \E i \in Invocations, k \in Keys : DeliverConc(i, k)
    \/ \E i \in Invocations : Step(i)

SpecConc == Init /\ [][NextConc]_vars

-----------------------------------------------------------------------------
(* The destination-path derivation on its own: the notified key is drawn    *)
(* from the keys composed of at most MaxSegs segments, and the handler is   *)
(* invoked on it.                                                           *)

Segments == {"incoming/", "archive/", "2024/sales", "x", "other/",
             ".csv", ".parquet", ".txt"}

RECURSIVE Compose(_)
Compose(n) ==
    IF n = 0 THEN {""}
    ELSE {p \o s : p \in Compose(n - 1), s \in Segments \cup {""}}

GenKeys == Compose(MaxSegs) \ {""}

InitDerive ==
    /\ store = [k \in AllKeys |-> Absent]
    /\ notified \in {{k} : k \in GenKeys}
    /\ origin = [k \in AllKeys |-> NoKey]
    /\ uploads = 0
    /\ pc = [i \in Invocations |-> "idle"]
    /\ src = [i \in Invocations |-> NoKey]
    /\ dst = [i \in Invocations |-> NoKey]
    /\ head = [i \in Invocations |-> "none"]
    /\ seen = [i \in Invocations |-> FALSE]
    /\ body = [i \in Invocations |-> Absent]
    /\ buffer = [i \in Invocations |-> Absent]
    /\ calls = [i \in Invocations |-> << >>]
    /\ outcome = [i \in Invocations |-> "none"]
    /\ error = [i \in Invocations |-> "none"]

NextDerive == \E i \in Invocations : \E k \in notified : Deliver(i, k)

SpecDerive == InitDerive /\ [][NextDerive]_vars

-----------------------------------------------------------------------------
(* At-least-once delivery of the notification of one uploaded eligible key: *)
(* a notification is delivered again until an invocation handles it, an     *)
(* invocation does not hang, and no storage call fails forever.             *)

InitLive ==
    /\ \E k \in EligibleKeys, c \in CsvBodies :
          /\ store = [x \in AllKeys |-> IF x = k THEN c ELSE Absent]
          /\ notified = {k}
    /\ origin = [k \in AllKeys |-> NoKey]
    /\ uploads = 0
    /\ pc = [i \in Invocations |-> "idle"]
    /\ src = [i \in Invocations |-> NoKey]
    /\ dst = [i \in Invocations |-> NoKey]
    /\ head = [i \in Invocations |-> "none"]
    /\ seen = [i \in Invocations |-> FALSE]
    /\ body = [i \in Invocations |-> Absent]
    /\ buffer = [i \in Invocations |-> Absent]
    /\ calls = [i \in Invocations |-> << >>]
    /\ outcome = [i \in Invocations |-> "none"]
    /\ error = [i \in Invocations |-> "none"]

NextLive ==
    \/ \E i \in Invocations, k \in Keys : DeliverConc(i, k)
    \/ \E i \in Invocations : Step(i)

\* the runtime delivers the notification again after a failed invocation
Redeliver(i) ==
    /\ outcome[i] \in {"none", "raised"}
    /\ \E k \in Keys : DeliverConc(i, k)

FairLive ==
    \A i \in Invocations :
        /\ WF_vars(Redeliver(i))
        /\ SF_vars(Probe(i, "200") \/ Probe(i, "404"))
        /\ SF_vars(Purge(i, FALSE))
        /\ SF_vars(Fetch(i, FALSE))
        /\ SF_vars(Write(i, FALSE))
        /\ SF_vars(Delete(i, FALSE))

SpecLive == InitLive /\ [][NextLive]_vars /\ FairLive

-----------------------------------------------------------------------------
(* Properties *)

Has(seq, x) == \E n \in 1..Len(seq) : seq[n] = x

\* reading a Parquet object back into rows
read_parquet(p) ==
    [columns |-> p.schema,
     rows    |-> [r \in 1..p.num_rows |->
                    [c \in 1..Len(p.schema) |-> p.chunks[c][r]]]]

\* the table a CSV body stands for, read off the body line by line
TableOf(b) ==
    [columns |-> b.lines[1],
     rows    |-> [r \in 1..(Len(b.lines) - 1) |->
                    [c \in 1..Len(b.lines[1]) |-> ParseCell(b.lines[r + 1][c])]]]

\* C1: when an invocation for an eligible key found no object at the
\* destination key and none of its storage calls failed, then at its return
\* the destination key holds a Parquet object whose rows, row order and
\* columns are those of the fetched source body (no index column added),
\* and the source key holds no object.
C1_ConvertedAndArchived ==
    [][\A i \in Invocations :
         (pc[i] = "delete" /\ head[i] = "404" /\ outcome'[i] = "converted")
         => /\ calls'[i] = <<"head_object", "get_object", "upload_fileobj", "delete_object">>
            /\ store'[dst[i]].kind = "parquet"
            /\ read_parquet(store'[dst[i]]) = TableOf(body[i])
            /\ store'[dst[i]].num_rows = Len(body[i].lines) - 1
            /\ store'[src[i]] = Absent]_vars

C1_Witness ==
    \E i \in Invocations :
        /\ outcome[i] = "converted"
        /\ head[i] = "404"
        /\ Present(dst[i])
        /\ ~Present(src[i])
        /\ store[dst[i]].num_rows = 2

Ignorable(k) == ~startswith(k, "incoming/") \/ ~endswith(k, ".csv")

\* C3: an invocation for a key that does not start with the incoming prefix
\* or does not end with ".csv" returns at once without raising, issues no
\* storage call, and leaves the store unchanged.
C3_IneligibleIsNoOp ==
    /\ [](\A i \in Invocations :
            (src[i] # NoKey /\ Ignorable(src[i]))
            => /\ pc[i] = "done"
               /\ outcome[i] = "ignored"
               /\ error[i] = "none"
               /\ calls[i] = << >>)
    /\ [][\A i \in Invocations :
            (src'[i] # NoKey /\ Ignorable(src'[i]) /\ <<pc[i], src[i], calls[i]>> # <<pc'[i], src'[i], calls'[i]>>)
            => store' = store]_vars

C3_Witness ==
    \E i \in Invocations :
        /\ src[i] = "incoming/data.txt"
        /\ outcome[i] = "ignored"
        /\ Present("incoming/data.txt")

\* C4: when the fetch, the decode or the destination write of an invocation
\* fails, the exception leaves lambda_handler (the invocation ends, no call
\* is repeated, no delete is issued) and the store is unchanged; after a
\* decode or write failure the source object is still there with the content
\* that was fetched.
C4_FailurePropagates ==
    [][\A i \in Invocations :
         /\ ( \/ Fetch(i, TRUE)
              \/ Write(i, TRUE)
              \/ (Fetch(i, FALSE) /\ (~Present(src[i]) \/ Len(store[src[i]].lines) = 0)) )
            => /\ pc'[i] = "done"
               /\ outcome'[i] = "raised"
               /\ error'[i] # "none"
               /\ store' = store
               /\ ~Has(calls'[i], "delete_object")
         /\ ( \/ Write(i, TRUE)
              \/ (Fetch(i, FALSE) /\ Present(src[i]) /\ Len(store[src[i]].lines) = 0) )
            => /\ Present(src[i])'
               /\ store'[src[i]] = body'[i]]_vars

C4_Witness ==
    \E i \in Invocations :
        /\ outcome[i] = "raised"
        /\ calls[i] = <<"head_object", "get_object", "upload_fileobj">>
        /\ Present(src[i])
        /\ ~Present(dst[i])

C9_NoDataLoss ==
    /\ \A i \in Invocations :
        /\ calls[i] \in { << >>,
                          <<"head_object">>,
                          <<"head_object", "delete_object">>,
                          <<"head_object", "get_object">>,
                          <<"head_object", "get_object", "upload_fileobj">>,
                          <<"head_object", "get_object", "upload_fileobj", "delete_object">> }
        /\ (pc[i] = "purge" \/ pc[i] = "delete" \/ Has(calls[i], "delete_object"))
           => /\ Present(dst[i])
              /\ (head[i] = "200" \/ origin[dst[i]] # NoKey)
              /\ (head[i] # "200" => Has(calls[i], "upload_fileobj"))
    /\ \A k \in notified :
        ~Ignorable(k) => Present(k) \/ Present(destination_path(k))

C9_Witness ==
    \E i \in Invocations :
        /\ outcome[i] = "raised"
        /\ calls[i] = <<"head_object", "get_object", "upload_fileobj", "delete_object">>
        /\ Present(src[i])
        /\ Present(dst[i])
        /\ \E j \in Invocations : pc[j] = "fetch" /\ src[j] = src[i]

\* the two invocations ran for the same key, each probe answered 404, no
\* storage call suffered a service error, and both have returned
RaceOver ==
    /\ src[1] = src[2]
    /\ src[1] # NoKey
    /\ \A i \in Invocations :
        /\ pc[i] = "done"
        /\ head[i] = "404"
        /\ error[i] \in {"none", "NoSuchKey"}

\* C6 as stated: when both invocations for one key passed the probe before
\* either wrote, then however their remaining steps interleave, the
\* destination has been written twice with identical content and the source
\* is deleted.
C6_Original ==
    [][(RaceOver' /\ ~RaceOver)
       => /\ \A i \in Invocations : Has(calls'[i], "upload_fileobj")
          /\ buffer'[1] = buffer'[2]
          /\ store'[dst'[1]] = buffer'[1]
          /\ store'[src'[1]] = Absent]_vars

\* C6 amended: when both invocations for one key passed the probe before
\* either wrote, then however their remaining steps interleave, the source
\* ends up deleted and the destination holds the conversion of the source
\* body; an invocation that fetched before the other deleted the source
\* writes the destination, so the destination is written twice with identical
\* content when both did, and an invocation that fetches after the other
\* deleted the source fails with NoSuchKey and writes nothing.
C6_ConcurrentConversions ==
    [][(RaceOver' /\ ~RaceOver)
       => /\ store'[src'[1]] = Absent
          /\ \E i \in Invocations :
                /\ outcome'[i] = "converted"
                /\ store'[dst'[1]] = buffer'[i]
                /\ read_parquet(store'[dst'[1]]) = TableOf(body'[i])
          /\ \A i \in Invocations :
                /\ error'[i] = "none"
                   => /\ outcome'[i] = "converted"
                      /\ Has(calls'[i], "upload_fileobj")
                      /\ store'[dst'[1]] = buffer'[i]
                /\ error'[i] = "NoSuchKey"
                   => /\ calls'[i] = <<"head_object", "get_object">>
                      /\ \E j \in Invocations : outcome'[j] = "converted"]_vars

C6_Witness ==
    /\ RaceOver
    /\ \A i \in Invocations : outcome[i] = "converted"
    /\ store[dst[1]] = buffer[1]
    /\ buffer[1] = buffer[2]
    /\ ~Present(src[1])

\* C10: two distinct eligible keys never derive the same destination key, so
\* the already-processed branch deletes a source only when the object at its
\* destination key was produced from that same source key.
C10_ShortcutOnlyOwnArtifact ==
    \A i \in Invocations :
        outcome[i] = "already"
        => /\ origin[dst[i]] = src[i]
           /\ \A k \in notified :
                (~Ignorable(k) /\ k # src[i]) => destination_path(k) # dst[i]

\* the places where p occurs in s
Positions(s, p) == {n \in 1..(Len(s) - Len(p) + 1) : SubSeq(s, n, n + Len(p) - 1) = p}

Occurrences(s, p) == Cardinality(Positions(s, p))

\* C7: for an eligible key the destination key is the source key with every
\* occurrence of "incoming/" replaced by "archive/" and every occurrence of
\* ".csv" replaced by ".parquet": no occurrence is left, each occurrence
\* changes the length by the difference of the two strings, a key with one
\* occurrence of each has its prefix and extension swapped, the key
\* "incoming/2024/sales.csv" gives "archive/2024/sales.parquet", and two
\* invocations for the same key derive the same destination.
C7_DestinationPath ==
    \A i \in Invocations :
        (src[i] # NoKey /\ ~Ignorable(src[i]))
        => /\ pc[i] = "probe"
           /\ Positions(dst[i], "incoming/") = {}
           /\ Positions(dst[i], ".csv") = {}
           /\ Len(dst[i]) = Len(src[i]) - Occurrences(src[i], "incoming/")
                                        + 4 * Occurrences(src[i], ".csv")
           /\ Occurrences(dst[i], "archive/") =
                 Occurrences(src[i], "archive/") + Occurrences(src[i], "incoming/")
           /\ Occurrences(dst[i], ".parquet") =
                 Occurrences(src[i], ".parquet") + Occurrences(src[i], ".csv")
           /\ startswith(dst[i], "archive/")
           /\ endswith(dst[i], ".parquet")
           /\ (Occurrences(src[i], "incoming/") = 1 /\ Occurrences(src[i], ".csv") = 1)
              => dst[i] = "archive/" \o SubSeq(src[i], 10, Len(src[i]) - 4) \o ".parquet"
           /\ src[i] = "incoming/2024/sales.csv" => dst[i] = "archive/2024/sales.parquet"
           /\ \A j \in Invocations : src[j] = src[i] => dst[j] = dst[i]

C7_Witness ==
    \E i \in Invocations :
        /\ pc[i] = "probe"
        /\ Occurrences(src[i], "incoming/") = 2
        /\ Occurrences(src[i], ".csv") = 1
        /\ \E j \in Invocations : j # i /\ src[j] = src[i]

Archived(k) == Present(destination_path(k)) /\ ~Present(k)

\* C5 as stated: an eligible key whose source is present and whose
\* destination is absent eventually has its destination present and its
\* source absent.
C5_Original ==
    \A k \in EligibleKeys :
        (Present(k) /\ ~Present(destination_path(k))) ~> Archived(k)

\* C5 amended: an eligible key whose source is present with a body that
\* pandas can decode, and whose destination is absent, eventually has its
\* destination present and its source absent, and stays so; and a delivery
\* whose probe reports the destination and whose delete succeeds removes the
\* stale source without a fetch or a write.
C5_Convergence ==
    /\ \A k \in EligibleKeys :
        (Present(k) /\ Len(store[k].lines) > 0 /\ ~Present(destination_path(k)))
            ~> Archived(k)
    /\ [][\A k \in EligibleKeys : Archived(k) => Archived(k)']_vars
    /\ [][\A i \in Invocations :
            Purge(i, FALSE)
            => /\ store' = [store EXCEPT ![src[i]] = Absent]
               /\ calls'[i] = <<"head_object", "delete_object">>
               /\ Archived(src[i])']_vars

C5_Witness ==
    \E i, j \in Invocations :
        /\ outcome[i] = "already"
        /\ Archived(src[i])
        /\ outcome[j] = "raised"
        /\ src[j] = src[i]
        /\ calls[j] = <<"head_object", "get_object", "upload_fileobj", "delete_object">>
====
